---- MODULE Spec2Model ----
(***************************************************************************)
(* Model of the Xiaomi air fryer MIoT client                               *)
(* (custom_components/xiaomi_airfryer): the status snapshot decoder        *)
(* FryerStatusMiot, the command methods of FryerMiot and the component     *)
(* set-up of __init__.py.                                                  *)
(*                                                                         *)
(* Python values are tagged records, because the code mixes integers,      *)
(* strings, None and enum members in the same dictionary:                  *)
(*   [t |-> "int"|"str"|"none"|"bool"|"enum", i |-> integer, s |-> string] *)
(* A call's outcome is [exc |-> "none" or the exception's class name,      *)
(* val |-> the returned value].                                            *)
(***************************************************************************)
EXTENDS Integers, Sequences, FiniteSets, TLC

VARIABLES batch, snapshot, out, calls, hass_data, pc, req

vars == <<batch, snapshot, out, calls, hass_data, pc, req>>

(* ---------------------------------------------------------------------- *)
(* Bounds of the model                                                     *)
(* ---------------------------------------------------------------------- *)
\* longest batched read result the transport returns
MaxBatch == 3
\* longest batched read result whose records carry any raw value
MaxWide == 1
\* how far beyond the last member of an enumeration raw values reach
Beyond == 1
\* how far on either side of a setter's limits its arguments reach
Slack == 2

(* ---------------------------------------------------------------------- *)
(* Python values                                                           *)
(* ---------------------------------------------------------------------- *)
None == [t |-> "none", i |-> 0, s |-> ""]
PyInt(n) == [t |-> "int", i |-> n, s |-> ""]
PyStr(x) == [t |-> "str", i |-> 0, s |-> x]
PyBool(b) == [t |-> "bool", i |-> IF b THEN 1 ELSE 0, s |-> ""]
\* an enum member: its name and its value
Member(name, value) == [t |-> "enum", i |-> value, s |-> name]

Return(v) == [exc |-> "none", val |-> v]
Raise(e) == [exc |-> e, val |-> None]

(* ---------------------------------------------------------------------- *)
(* fryer_miot.py: the enumerations (member name -> value)                  *)
(* ---------------------------------------------------------------------- *)
Status ==
    [Unknown |-> -1, Shutdown |-> 0, Standby |-> 1, Pause |-> 2,
     Appointment |-> 3, Cooking |-> 4, Preheat |-> 5, Cooked |-> 6,
     PreheatFinish |-> 7, PreheatPause |-> 8, Pause2 |-> 9, Keepwarm |-> 10,
     KeepwarmPause |-> 11, KeepwarmFinish |-> 12, CrispyRoast |-> 13,
     Degrease |-> 14]

DeviceFault == [Unknown |-> -1, NoFaults |-> 0, E1 |-> 1, E2 |-> 2, E3 |-> 3]

FoodQuanty ==
    [Unknown |-> -1, Null |-> 0, Single |-> 1, Double |-> 2, Half |-> 3,
     Full |-> 4]

TurnPot == [Unknown |-> -1, NotTurnPot |-> 0, SwitchOff |-> 1, TurnPot |-> 2]

PreheatSwitch == [Unknown |-> -1, Null |-> 0, Off |-> 1, On |-> 2]

RecipeId ==
    [Manual |-> "M0", FrenchFries |-> "M1", ChickenWing |-> "M2",
     SweetPotato |-> "M3", Cake |-> "M4", Defrost |-> "M5",
     DriedFruit |-> "M6", Yogurt |-> "M7"]

\* the display names are Cyrillic strings in the source; they are written
\* here in Latin transliteration, one distinct string per member
RecipeName ==
    [Manual |-> "Ruchnoj", FrenchFries |-> "Kartofel Fri",
     ChickenWing |-> "Kurinye Krylya", SweetPotato |-> "Sladkij kartofel",
     Defrost |-> "Razmorozka", DriedFruit |-> "Suhofrukty",
     Yogurt |-> "Jogurt", Cake |-> "Tort"]

\* Enum(value) on an enumeration with integer values: the member whose value
\* equals the argument, ValueError when there is none (None and strings
\* equal no integer)
IntEnumCall(enum, raw) ==
    IF raw.t = "int" /\ \E n \in DOMAIN enum : enum[n] = raw.i
    THEN Return(Member(CHOOSE n \in DOMAIN enum : enum[n] = raw.i, raw.i))
    ELSE Raise("ValueError")

\* Enum(value) on an enumeration with string values
StrEnumCall(enum, raw) ==
    IF raw.t = "str" /\ \E n \in DOMAIN enum : enum[n] = raw.s
    THEN Return(PyStr(CHOOSE n \in DOMAIN enum : enum[n] = raw.s))
    ELSE Raise("ValueError")

\* self.data[key]
GetItem(data, key) ==
    IF key \in DOMAIN data THEN Return(data[key]) ELSE Raise("KeyError")

(* ---------------------------------------------------------------------- *)
(* fryer_miot.py: FryerStatusMiot, the typed view of one batched read      *)
(* ---------------------------------------------------------------------- *)
\* try: return Enum(self.data[key]).value / except ValueError: return
\* fallback.  A KeyError of the subscript is not caught.
EnumValueOr(enum, data, key, fallback) ==
    LET g == GetItem(data, key)
        e == IntEnumCall(enum, g.val)
    IN IF g.exc # "none" THEN g
       ELSE IF e.exc = "ValueError" THEN Return(fallback)
       ELSE Return(PyInt(e.val.i))

\* the same for the properties that return the member itself
EnumMemberOr(enum, data, key, fallback) ==
    LET g == GetItem(data, key)
        e == IntEnumCall(enum, g.val)
    IN IF g.exc # "none" THEN g
       ELSE IF e.exc = "ValueError" THEN Return(fallback)
       ELSE e

\* x not in [0, 1, 6, 9]: list membership compares with ==
NotInOffList(raw) == ~(raw.t = "int" /\ raw.i \in {0, 1, 6, 9})

\* the predicate written as a list of the running states
IsOn_RunningList(data) ==
    LET g == GetItem(data, "status")
    IN IF g.exc # "none" THEN g
       ELSE Return(PyBool(g.val.t = "int"
                            /\ g.val.i \in (0 .. 14) \ {0, 1, 6, 9}))

FryerStatusMiot_is_on(data) ==
    LET g == GetItem(data, "status")
    IN IF g.exc # "none" THEN g ELSE Return(PyBool(NotInOffList(g.val)))

\* the decoding without its except clause
Status_Uncaught(data) ==
    LET g == GetItem(data, "status")
        e == IntEnumCall(Status, g.val)
    IN IF g.exc # "none" THEN g
       ELSE IF e.exc # "none" THEN e
       ELSE Return(PyInt(e.val.i))

FryerStatusMiot_status(data) ==
    EnumValueOr(Status, data, "status", PyInt(Status.Unknown))

FryerStatusMiot_device_fault(data) ==
    EnumValueOr(DeviceFault, data, "device_fault", PyInt(DeviceFault.Unknown))

FryerStatusMiot_recipe_id(data) == GetItem(data, "recipe_id")

\* RecipeName(RecipeId(self.data["recipe_id"]).name).value: both calls look
\* a member up by value; no exception is caught
FryerStatusMiot_recipe_name(data) ==
    LET g == GetItem(data, "recipe_id")
        id == StrEnumCall(RecipeId, g.val)
        nm == StrEnumCall(RecipeName, id.val)
    IN IF g.exc # "none" THEN g
       ELSE IF id.exc # "none" THEN id
       ELSE IF nm.exc # "none" THEN nm
       ELSE Return(PyStr(RecipeName[nm.val.s]))

FryerStatusMiot_food_quanty(data) ==
    EnumMemberOr(FoodQuanty, data, "food_quanty",
                 Member("Single", FoodQuanty.Single))

FryerStatusMiot_preheat_switch(data) ==
    EnumValueOr(PreheatSwitch, data, "preheat_switch",
                PyInt(PreheatSwitch.Unknown))

FryerStatusMiot_turn_pot(data) ==
    EnumMemberOr(TurnPot, data, "turn_pot", Member("Unknown", TurnPot.Unknown))

\* the properties of the snapshot that the model reads
Getters ==
    {"is_on", "status", "device_fault", "recipe_id", "recipe_name",
     "food_quanty", "preheat_switch", "turn_pot"}

Getter(name, data) ==
    CASE name = "is_on" -> FryerStatusMiot_is_on(data)
      [] name = "status" -> FryerStatusMiot_status(data)
      [] name = "device_fault" -> FryerStatusMiot_device_fault(data)
      [] name = "recipe_id" -> FryerStatusMiot_recipe_id(data)
      [] name = "recipe_name" -> FryerStatusMiot_recipe_name(data)
      [] name = "food_quanty" -> FryerStatusMiot_food_quanty(data)
      [] name = "preheat_switch" -> FryerStatusMiot_preheat_switch(data)
      [] name = "turn_pot" -> FryerStatusMiot_turn_pot(data)

(* ---------------------------------------------------------------------- *)
(* fryer_miot.py: FryerMiot.status, the batched read                       *)
(* ---------------------------------------------------------------------- *)
\* prop["value"] if prop["code"] == 0 else None
ValueOrNone(prop) == IF prop.code = 0 THEN prop.value ELSE None

\* {prop["did"]: ... for prop in results}: a later record of the same did
\* replaces an earlier one
RECURSIVE DictOf(_)
DictOf(results) ==
    IF results = <<>> THEN <<>>
    ELSE LET n == Len(results)
             prop == results[n]
         IN (prop.did :> ValueOrNone(prop)) @@ DictOf(SubSeq(results, 1, n - 1))

\* the properties in the order of MIOT_MAPPING
RequestOrder ==
    <<"status", "device_fault", "recipe_id", "food_quanty", "preheat_switch",
      "turn_pot">>

\* the records correlated with the request by position
Status_ByPosition(results) ==
    [d \in {RequestOrder[k] : k \in 1 .. Len(results)} |->
        ValueOrNone(results[CHOOSE k \in 1 .. Len(results) :
                                RequestOrder[k] = d])]

FryerMiot_status(results) == DictOf(results)

(* ---------------------------------------------------------------------- *)
(* fryer_miot.py: the commands of FryerMiot                                *)
(* A command's outcome is [res |-> what the caller gets, calls |-> the     *)
(* transport calls made]; reply is what the transport answers.             *)
(* ---------------------------------------------------------------------- *)
\* the transport's answers: the device's result, or its own exception
Replies == {Return(PyStr("ok")), Raise("TransportError")}

Refused(e) == [res |-> Raise(e), calls |-> <<>>]

\* self.set_property(name, value)
SetProperty(name, value, reply) ==
    [res |-> reply,
     calls |-> <<[kind |-> "set_property", name |-> name, arg |-> value]>>]

\* self.call_action(name, params)
CallAction(name, params, reply) ==
    [res |-> reply,
     calls |-> <<[kind |-> "call_action", name |-> name, arg |-> params]>>]

\* self.get_properties_for_mapping()
GetProperties == [kind |-> "get_properties", name |-> "", arg |-> None]

FryerMiot_appoint_time(hours, reply) ==
    IF hours < 0 \/ hours > 24 * 60
    THEN Refused("DeviceException")
    ELSE SetProperty("appoint_time", PyInt(hours), reply)

FryerMiot_recipe_id(recipe_id, reply) ==
    SetProperty("recipe_id", recipe_id, reply)

FryerMiot_food_quanty(food_quanty, reply) ==
    IF food_quanty < 0 \/ food_quanty > 5
    THEN Refused("DeviceException")
    ELSE SetProperty("food_quanty", PyInt(food_quanty), reply)

\* the lower bound copied from appoint_time
TargetTime_FromZero(target_time, reply) ==
    IF target_time < 0 \/ target_time > 1440
    THEN Refused("DeviceException")
    ELSE SetProperty("target_time", PyInt(target_time), reply)

FryerMiot_target_time(target_time, reply) ==
    IF target_time < 1 \/ target_time > 1440
    THEN Refused("DeviceException")
    ELSE SetProperty("target_time", PyInt(target_time), reply)

FryerMiot_target_temperature(target_temperature, reply) ==
    IF target_temperature < 40 \/ target_temperature > 200
    THEN Refused("DeviceException")
    ELSE SetProperty("target_temperature", PyInt(target_temperature), reply)

FryerMiot_start_cook(reply) == CallAction("start_cook", None, reply)
FryerMiot_cancel_cooking(reply) == CallAction("cancel_cooking", None, reply)
FryerMiot_pause(reply) == CallAction("pause", None, reply)
FryerMiot_resume_cooking(reply) == CallAction("resume_cooking", None, reply)

\* [recipeId, name, targetTime, targetTemperature, appointTime,
\*  foodQuantity, preheat]
RecipeToCommand ==
    [Manual |-> <<PyStr("M0"), PyStr(""), PyInt(0), PyInt(0), PyInt(0),
                  PyInt(0), PyInt(0)>>,
     FrenchFries |-> <<PyStr("M1"), PyStr(""), PyInt(15), PyInt(200),
                       PyInt(0), PyInt(3), PyInt(0)>>,
     ChickenWing |-> <<PyStr("M2"), PyStr(""), PyInt(15), PyInt(180),
                       PyInt(0), PyInt(1), PyInt(0)>>,
     SweetPotato |-> <<PyStr("M3"), PyStr(""), PyInt(30), PyInt(200),
                       PyInt(0), PyInt(1), PyInt(0)>>,
     Cake |-> <<PyStr("M4"), PyStr(""), PyInt(30), PyInt(160), PyInt(0),
                PyInt(0), PyInt(0)>>,
     Defrost |-> <<PyStr("M5"), PyStr(""), PyInt(15), PyInt(40), PyInt(0),
                   PyInt(0), PyInt(0)>>,
     DriedFruit |-> <<PyStr("M6"), PyStr(""), PyInt(240), PyInt(40),
                      PyInt(0), PyInt(0), PyInt(0)>>,
     Yogurt |-> <<PyStr("M7"), PyStr(""), PyInt(480), PyInt(40), PyInt(0),
                  PyInt(0), PyInt(0)>>]

DigitChar == <<"0", "1", "2", "3", "4", "5", "6", "7", "8", "9">>

\* str(n) of a natural number: its decimal digits
RECURSIVE Decimal(_)
Decimal(n) ==
    IF n < 10 THEN DigitChar[n + 1]
    ELSE Decimal(n \div 10) \o DigitChar[(n % 10) + 1]

\* str(x) of a string or an integer
str(x) ==
    IF x.t = "str" THEN x.s
    ELSE IF x.i < 0 THEN "-" \o Decimal(-x.i) ELSE Decimal(x.i)

\* sep.join(items)
RECURSIVE join(_, _)
join(sep, items) ==
    IF items = <<>> THEN ""
    ELSE IF Len(items) = 1 THEN items[1]
    ELSE items[1] \o sep \o join(sep, Tail(items))

\* the join of the fields that are not falsy
StartCustomCook_SkipEmpty(mode, reply) ==
    LET recipe_id == StrEnumCall(RecipeId, mode)
        command == RecipeToCommand[recipe_id.val.s]
        kept == SelectSeq(command, LAMBDA x : x # PyStr("") /\ x # PyInt(0))
    IN IF recipe_id.exc # "none" THEN Refused(recipe_id.exc)
       ELSE CallAction("start_custom_cook",
                       PyStr(join(",", [k \in 1 .. Len(kept) |->
                                           str(kept[k])])),
                       reply)

FryerMiot_start_custom_cook(mode, reply) ==
    LET recipe_id == StrEnumCall(RecipeId, mode)
        command == RecipeToCommand[recipe_id.val.s]
        mode_command == join(",", [k \in 1 .. Len(command) |->
                                      str(command[k])])
    IN IF recipe_id.exc # "none" THEN Refused(recipe_id.exc)
       ELSE CallAction("start_custom_cook", PyStr(mode_command), reply)

(* ---------------------------------------------------------------------- *)
(* The transport's batched read results                                    *)
(* ---------------------------------------------------------------------- *)
MaxOf(enum) == CHOOSE m \in {enum[n] : n \in DOMAIN enum} :
                   \A n \in DOMAIN enum : enum[n] <= m

\* raw integers around an enumeration: every member and Beyond more
RawInts(enum) == {PyInt(i) : i \in -1 .. MaxOf(enum) + Beyond}

UnknownTokens == {"M9"}

RawValues(did) ==
    CASE did = "status" -> RawInts(Status)
      [] did = "device_fault" -> RawInts(DeviceFault)
      [] did = "food_quanty" -> RawInts(FoodQuanty)
      [] did = "preheat_switch" -> RawInts(PreheatSwitch)
      [] did = "turn_pot" -> RawInts(TurnPot)
      [] did = "recipe_id" ->
            {PyStr(RecipeId[n]) : n \in DOMAIN RecipeId}
                \cup {PyStr(x) : x \in UnknownTokens}

\* the properties of MIOT_MAPPING whose decoding the model follows
Dids ==
    {"status", "device_fault", "food_quanty", "preheat_switch", "turn_pot",
     "recipe_id"}

\* a record with a non-zero code carries no value
FailCodes == {-4001}

Records ==
    UNION {{[did |-> d, code |-> 0, value |-> v] : v \in RawValues(d)}
             \cup {[did |-> d, code |-> c, value |-> None] : c \in FailCodes}
           : d \in Dids}

\* one readable value and the failed read, per property
CoreValue(did) == IF did = "recipe_id" THEN PyStr(RecipeId.Manual) ELSE PyInt(0)

CoreRecords ==
    UNION {{[did |-> d, code |-> 0, value |-> CoreValue(d)]}
             \cup {[did |-> d, code |-> c, value |-> None] : c \in FailCodes}
           : d \in Dids}

\* the batches the model feeds to a refresh: up to MaxWide records with any
\* raw value, and up to MaxBatch records with the core values
Batches ==
    UNION {[1 .. n -> Records] : n \in 0 .. MaxWide}
        \cup UNION {[1 .. n -> CoreRecords] : n \in 0 .. MaxBatch}

(* ---------------------------------------------------------------------- *)
(* State                                                                   *)
(*   batch     the result the transport gives to a batched read            *)
(*   snapshot  the FryerStatusMiot of the last refresh (made: one exists)  *)
(*   out       the last operation: its name, argument and outcome          *)
(*   calls     the transport calls the last command made                   *)
(*   hass_data hass.data[DOMAIN]: host -> client                           *)
(*   pc, req   per concurrent caller: position and request in flight       *)
(* ---------------------------------------------------------------------- *)
NoOut == [op |-> "none", arg |-> None, res |-> Return(None)]
NoSnapshot == [made |-> FALSE, data |-> <<>>]

Callers == {"poller", "service"}
NoReq == [kind |-> "none", name |-> "", arg |-> None]

IdleRest ==
    /\ calls = <<>>
    /\ hass_data = <<>>
    /\ pc = [c \in Callers |-> "idle"]
    /\ req = [c \in Callers |-> NoReq]

(* ---------------------------------------------------------------------- *)
(* Decoding: one refresh of a batch, then reads of the snapshot            *)
(* ---------------------------------------------------------------------- *)
Init ==
    /\ batch \in Batches
    /\ snapshot = NoSnapshot
    /\ out = NoOut
    /\ IdleRest

\* FryerMiot.status(): the batched read and the snapshot built from it
Refresh ==
    /\ snapshot' = [made |-> TRUE, data |-> FryerMiot_status(batch)]
    /\ out' = [op |-> "refresh", arg |-> None, res |-> Return(None)]
    /\ calls' = <<GetProperties>>
    /\ UNCHANGED <<batch, hass_data, pc, req>>

\* reading one property of the snapshot
Read(name) ==
    /\ snapshot.made
    /\ out' = [op |-> name, arg |-> None, res |-> Getter(name, snapshot.data)]
    /\ UNCHANGED <<batch, snapshot, calls, hass_data, pc, req>>

Next ==
    \/ Refresh
    \/ \E name \in Getters : Read(name)

Spec == Init /\ [][Next]_vars

(* ---------------------------------------------------------------------- *)
(* __init__.py: loading the component and setting an entry up              *)
(* ---------------------------------------------------------------------- *)
\* the names fryer_miot.py binds at module level
FryerMiotModuleNames ==
    {"enum", "Any", "Dict", "Tuple", "logging", "click", "command",
     "format_output", "DeviceStatus", "MiotDevice", "_LOGGER", "MIOT_MAPPING",
     "DeviceException", "Status", "DeviceFault", "FoodQuanty", "TurnPot",
     "PreheatSwitch", "RecipeId", "RecipeToCommand", "RecipeName",
     "FryerStatusMiot", "FryerMiot"}

\* the names const.py binds at module level
ConstModuleNames ==
    {"timedelta", "DEFAULT_NAME", "DOMAIN", "DOMAINS", "DATA_KEY",
     "DATA_STATE", "DATA_DEVICE", "CONF_MODEL", "CONF_MAC",
     "MODEL_FRYER_MAF01", "ATTR_FOOD_QUANTY", "ATTR_MODEL", "ATTR_MODE",
     "ATTR_TIME", "ATTR_TARGET_TIME", "ATTR_TARGET_TEMPERATURE",
     "ATTR_RECIPE_ID", "SUCCESS", "DEFAULT_SCAN_INTERVAL", "SCAN_INTERVAL",
     "MIN_TIME_BETWEEN_UPDATES", "SERVICE_START", "SERVICE_STOP",
     "SERVICE_PAUSE", "SERVICE_START_CUSTOM", "SERVICE_RESUME",
     "SERVICE_APPOINT_TIME", "SERVICE_RECIPE_ID", "SERVICE_FOOD_QUANTY",
     "SERVICE_TARGET_TIME", "SERVICE_TARGET_TEMPERATURE"}

\* from .fryer_miot import ...
ImportedFromFryerMiot ==
    {"FryerMiot", "FryerMiotYBAF", "FryerMiotSCK", "FryerMiotMi"}

\* from .const import ...
ImportedFromConst ==
    {"DOMAIN", "DOMAINS", "DEFAULT_SCAN_INTERVAL", "MODELS_CARELI",
     "MODELS_SILEN", "MODELS_MIOT", "MODELS_ALL_DEVICES"}

\* executing the import statements of __init__.py: a from-import of a name
\* the module does not bind raises ImportError
ModuleImports ==
    IF ImportedFromFryerMiot \subseteq FryerMiotModuleNames
         /\ ImportedFromConst \subseteq ConstModuleNames
    THEN "none" ELSE "ImportError"

ModelStrings ==
    {"", "careli.fryer.maf01", "careli.fryer.maf02", "silen.fryer.sck501",
     "xiaomi.unknown"}

Hosts == {"192.168.1.10", "192.168.1.11"}

\* the model lists of const.py have no binding in the sources: models is
\* whatever value they would have, [name -> set of model strings]
ModelLists ==
    [{"MODELS_CARELI", "MODELS_SILEN", "MODELS_MIOT", "MODELS_ALL_DEVICES"}
        -> SUBSET ModelStrings]

determine_fryer_class(model, models) ==
    IF model \in models["MODELS_CARELI"] THEN "FryerMiot"
    ELSE IF model \in models["MODELS_SILEN"] THEN "FryerMiotSCK"
    ELSE IF model \in models["MODELS_MIOT"] THEN "FryerMiotMi"
    ELSE IF model \in models["MODELS_ALL_DEVICES"] THEN "FryerMiot"
    ELSE "FryerMiot"

(* ---------------------------------------------------------------------- *)
(* Commands, one caller at a time                                          *)
(* ---------------------------------------------------------------------- *)
\* the limits the setters compare with
Limits == {0, 1, 5, 40, 200, 24 * 60}

\* integer arguments: up to Slack on either side of every limit
ArgInts == UNION {(l - Slack) .. (l + Slack) : l \in Limits}

\* arguments of the recipe commands: the preset ids, other strings, None
Modes ==
    {PyStr(RecipeId[n]) : n \in DOMAIN RecipeId}
        \cup {PyStr(x) : x \in UnknownTokens \cup {"", "m1", "FrenchFries"}}
        \cup {None}

InitCmd ==
    /\ batch = <<>>
    /\ snapshot = NoSnapshot
    /\ out = NoOut
    /\ IdleRest

\* each action is one call of a command by a caller that waits for its
\* outcome: out is what the caller gets, calls what the transport was asked
AppointTime ==
    \E hours \in ArgInts, reply \in Replies :
        LET h == FryerMiot_appoint_time(hours, reply)
        IN /\ out' = [op |-> "appoint_time", arg |-> PyInt(hours), res |-> h.res]
           /\ calls' = h.calls
           /\ UNCHANGED <<batch, snapshot, hass_data, pc, req>>

SetRecipeId ==
    \E id \in Modes \ {None}, reply \in Replies :
        LET h == FryerMiot_recipe_id(id, reply)
        IN /\ out' = [op |-> "recipe_id", arg |-> id, res |-> h.res]
           /\ calls' = h.calls
           /\ UNCHANGED <<batch, snapshot, hass_data, pc, req>>

SetFoodQuanty ==
    \E q \in ArgInts, reply \in Replies :
        LET h == FryerMiot_food_quanty(q, reply)
        IN /\ out' = [op |-> "food_quanty", arg |-> PyInt(q), res |-> h.res]
           /\ calls' = h.calls
           /\ UNCHANGED <<batch, snapshot, hass_data, pc, req>>

TargetTime ==
    \E t \in ArgInts, reply \in Replies :
        LET h == FryerMiot_target_time(t, reply)
        IN /\ out' = [op |-> "target_time", arg |-> PyInt(t), res |-> h.res]
           /\ calls' = h.calls
           /\ UNCHANGED <<batch, snapshot, hass_data, pc, req>>

TargetTemperature ==
    \E t \in ArgInts, reply \in Replies :
        LET h == FryerMiot_target_temperature(t, reply)
        IN /\ out' = [op |-> "target_temperature", arg |-> PyInt(t), res |-> h.res]
           /\ calls' = h.calls
           /\ UNCHANGED <<batch, snapshot, hass_data, pc, req>>

StartCook ==
    \E reply \in Replies :
        LET h == FryerMiot_start_cook(reply)
        IN /\ out' = [op |-> "start_cook", arg |-> None, res |-> h.res]
           /\ calls' = h.calls
           /\ UNCHANGED <<batch, snapshot, hass_data, pc, req>>

CancelCooking ==
    \E reply \in Replies :
        LET h == FryerMiot_cancel_cooking(reply)
        IN /\ out' = [op |-> "cancel_cooking", arg |-> None, res |-> h.res]
           /\ calls' = h.calls
           /\ UNCHANGED <<batch, snapshot, hass_data, pc, req>>

Pause ==
    \E reply \in Replies :
        LET h == FryerMiot_pause(reply)
        IN /\ out' = [op |-> "pause", arg |-> None, res |-> h.res]
           /\ calls' = h.calls
           /\ UNCHANGED <<batch, snapshot, hass_data, pc, req>>

StartCustomCook ==
    \E mode \in Modes, reply \in Replies :
        LET h == FryerMiot_start_custom_cook(mode, reply)
        IN /\ out' = [op |-> "start_custom_cook", arg |-> mode, res |-> h.res]
           /\ calls' = h.calls
           /\ UNCHANGED <<batch, snapshot, hass_data, pc, req>>

ResumeCooking ==
    \E reply \in Replies :
        LET h == FryerMiot_resume_cooking(reply)
        IN /\ out' = [op |-> "resume_cooking", arg |-> None, res |-> h.res]
           /\ calls' = h.calls
           /\ UNCHANGED <<batch, snapshot, hass_data, pc, req>>

\* loading the component and async_setup_entry(hass, entry) for an entry
\* with this host and model
SetupEntry ==
    \E host \in Hosts, model \in ModelStrings :
        IF ModuleImports # "none"
        THEN /\ out' = [op |-> "async_setup_entry", arg |-> PyStr(model),
                        res |-> Raise(ModuleImports)]
             /\ UNCHANGED <<batch, snapshot, calls, hass_data, pc, req>>
        ELSE \E models \in ModelLists :
             /\ hass_data' =
                   (host :> [class |-> determine_fryer_class(model, models),
                             model |-> model]) @@ hass_data
             /\ out' = [op |-> "async_setup_entry", arg |-> PyStr(model),
                        res |-> Return(PyBool(TRUE))]
             /\ UNCHANGED <<batch, snapshot, calls, pc, req>>

NextCmd ==
    \/ AppointTime
    \/ SetRecipeId
    \/ SetFoodQuanty
    \/ TargetTime
    \/ TargetTemperature
    \/ StartCook
    \/ CancelCooking
    \/ Pause
    \/ StartCustomCook
    \/ ResumeCooking
    \/ SetupEntry

SpecCmd == InitCmd /\ [][NextCmd]_vars

(* ---------------------------------------------------------------------- *)
(* Commands and refreshes of concurrent callers on one client              *)
(* A call blocks in the transport between its request and the reply; the   *)
(* methods of FryerMiot take no lock and keep no busy flag, so a caller    *)
(* enters the transport whenever it calls.  A call that the validation     *)
(* refuses never reaches the transport and leaves the client as it was.    *)
(* ---------------------------------------------------------------------- *)
RangeSetters ==
    {"appoint_time", "food_quanty", "target_time", "target_temperature"}

Actions == {"start_cook", "cancel_cooking", "pause", "resume_cooking"}

\* the calls a caller can make: the command and its argument
Invocations ==
    {[op |-> o, arg |-> PyInt(n)] : o \in RangeSetters, n \in ArgInts}
        \cup {[op |-> "recipe_id", arg |-> m] : m \in Modes \ {None}}
        \cup {[op |-> "start_custom_cook", arg |-> m] : m \in Modes}
        \cup {[op |-> o, arg |-> None] : o \in Actions}

Command(op, arg, reply) ==
    CASE op = "appoint_time" -> FryerMiot_appoint_time(arg.i, reply)
      [] op = "recipe_id" -> FryerMiot_recipe_id(arg, reply)
      [] op = "food_quanty" -> FryerMiot_food_quanty(arg.i, reply)
      [] op = "target_time" -> FryerMiot_target_time(arg.i, reply)
      [] op = "target_temperature" ->
            FryerMiot_target_temperature(arg.i, reply)
      [] op = "start_cook" -> FryerMiot_start_cook(reply)
      [] op = "cancel_cooking" -> FryerMiot_cancel_cooking(reply)
      [] op = "pause" -> FryerMiot_pause(reply)
      [] op = "start_custom_cook" -> FryerMiot_start_custom_cook(arg, reply)
      [] op = "resume_cooking" -> FryerMiot_resume_cooking(reply)

InitConc ==
    /\ batch \in UNION {[1 .. n -> CoreRecords] : n \in 0 .. 1}
    /\ snapshot = NoSnapshot
    /\ out = NoOut
    /\ IdleRest

\* a caller calls a command: the request goes to the transport
CallCommand(c) ==
    /\ pc[c] = "idle"
    /\ \E inv \in Invocations :
          LET h == Command(inv.op, inv.arg, Return(None))
          IN /\ h.calls # <<>>
             /\ req' = [req EXCEPT ![c] = h.calls[1]]
    /\ pc' = [pc EXCEPT ![c] = "awaiting"]
    /\ UNCHANGED <<batch, snapshot, out, calls, hass_data>>

\* a caller calls status(): the batched read goes to the transport
CallStatus(c) ==
    /\ pc[c] = "idle"
    /\ req' = [req EXCEPT ![c] = GetProperties]
    /\ pc' = [pc EXCEPT ![c] = "awaiting"]
    /\ UNCHANGED <<batch, snapshot, out, calls, hass_data>>

\* the transport answers and the call returns; a batched read that
\* succeeded leaves its snapshot
Complete(c) ==
    /\ pc[c] = "awaiting"
    /\ \E reply \in Replies :
          snapshot' = IF req[c] = GetProperties /\ reply.exc = "none"
                      THEN [made |-> TRUE, data |-> FryerMiot_status(batch)]
                      ELSE snapshot
    /\ pc' = [pc EXCEPT ![c] = "idle"]
    /\ req' = [req EXCEPT ![c] = NoReq]
    /\ UNCHANGED <<batch, out, calls, hass_data>>

NextConc ==
    \E c \in Callers :
        \/ CallCommand(c)
        \/ CallStatus(c)
        \/ Complete(c)

SpecConc == InitConc /\ [][NextConc]_vars

(* ---------------------------------------------------------------------- *)
(* Properties of the decoder                                               *)
(* ---------------------------------------------------------------------- *)
HasRaw(did) == snapshot.made /\ did \in DOMAIN snapshot.data
Raw(did) == snapshot.data[did]

\* C1: reading the operating status never raises; a raw value in 0..14
\* decodes to that value, any other raw value (an integer outside 0..14 or
\* the None of a failed read) decodes to Unknown (-1).
C1_StatusDecodeExact ==
    (out.op = "status" /\ HasRaw("status")) =>
        out.res = Return(PyInt(IF Raw("status").t = "int"
                                    /\ Raw("status").i \in 0 .. 14
                                 THEN Raw("status").i ELSE -1))

C1_Witness ==
    /\ out.op = "status" /\ HasRaw("status")
    /\ Raw("status").t = "int" /\ Raw("status").i > 14
    /\ out.res = Return(PyInt(-1))

\* C8: is_on is true exactly when the decoded operating status is none of
\* Shutdown (0), Standby (1), Cooked (6), Pause2 (9); for a raw status
\* outside 0..14 and for the None of a failed read the decoded status is
\* Unknown and is_on is true.
C8_IsOnIffNotOff ==
    (out.op = "is_on" /\ HasRaw("status")) =>
        LET decoded == FryerStatusMiot_status(snapshot.data)
        IN /\ decoded.exc = "none"
           /\ out.res = Return(PyBool(decoded.val.i \notin {0, 1, 6, 9}))
           /\ ~(Raw("status").t = "int" /\ Raw("status").i \in 0 .. 14) =>
                  decoded.val.i = -1 /\ out.res = Return(PyBool(TRUE))

C8_Witness ==
    /\ out.op = "is_on" /\ HasRaw("status")
    /\ Raw("status") = None
    /\ out.res = Return(PyBool(TRUE))

OneRecordPerDid(b) ==
    \A j, k \in 1 .. Len(b) : b[j].did = b[k].did => j = k

\* C10: the snapshot depends only on the set of records, correlated by did:
\* for a batch with at most one record per property every permutation
\* builds the same snapshot, and each field holds its record's value when
\* the code is 0 and None otherwise.
C10_SnapshotByIdentity ==
    (snapshot.made /\ OneRecordPerDid(batch)) =>
        /\ \A q \in Permutations(1 .. Len(batch)) :
              FryerMiot_status([k \in 1 .. Len(batch) |-> batch[q[k]]])
                  = snapshot.data
        /\ DOMAIN snapshot.data = {batch[k].did : k \in 1 .. Len(batch)}
        /\ \A k \in 1 .. Len(batch) :
              snapshot.data[batch[k].did] =
                  IF batch[k].code = 0 THEN batch[k].value ELSE None

C10_Witness ==
    /\ snapshot.made /\ OneRecordPerDid(batch) /\ Len(batch) = 3
    /\ batch[1].did = "turn_pot" /\ batch[1].code = 0
    /\ batch[2].did = "status" /\ batch[2].code # 0
    /\ snapshot.data["turn_pot"] = PyInt(0)
    /\ snapshot.data["status"] = None

DeviceFaultMissing ==
    \A k \in 1 .. Len(batch) :
        batch[k].did = "device_fault" => batch[k].code # 0

\* the property a getter decodes
PropOf(getter) ==
    CASE getter = "is_on" -> "status"
      [] getter = "recipe_name" -> "recipe_id"
      [] OTHER -> getter

\* C2: when device_fault is missing from the batch (its record omitted, or
\* returned with a non-zero code) the refresh does not fail, reading
\* device_fault yields absent/Unknown without raising, and every other
\* property decodes as it does when device_fault is present.
C2_MissingFaultTolerated ==
    (snapshot.made /\ DeviceFaultMissing) =>
        /\ out.op = "refresh" => out.res.exc = "none"
        /\ out.op = "device_fault" =>
              out.res \in {Return(None), Return(PyInt(-1))}
        /\ (out.op \in Getters /\ PropOf(out.op) # "device_fault") =>
              out.res = Getter(out.op,
                               FryerMiot_status(batch \o
                                   <<[did |-> "device_fault", code |-> 0,
                                      value |-> PyInt(0)]>>))

\* the closed domain of each enumerated field other than the status
ClosedDomain(did) ==
    CASE did = "device_fault" -> 0 .. 3
      [] did = "food_quanty" -> 0 .. 4
      [] did = "turn_pot" -> 0 .. 2
      [] did = "preheat_switch" -> 0 .. 2

\* C5: for device_fault, food_quanty, turn_pot and preheat_switch a raw
\* value outside the field's closed domain decodes to Unknown (-1), never
\* to a member of the domain and never to an exception.
C5_FallbackIsUnknown ==
    \A f \in {"device_fault", "food_quanty", "turn_pot", "preheat_switch"} :
        (out.op = f /\ HasRaw(f)
            /\ ~(Raw(f).t = "int" /\ Raw(f).i \in ClosedDomain(f))) =>
            out.res.exc = "none" /\ out.res.val.i = -1

PresetTokens == {"M0", "M1", "M2", "M3", "M4", "M5", "M6", "M7"}

\* C6: recipe_name is the display name of the preset whose id is the raw
\* recipe_id when that is one of M0..M7, and otherwise a marker value: no
\* lookup failure is propagated.
C6_RecipeNameResolves ==
    (out.op = "recipe_name" /\ HasRaw("recipe_id")) =>
        IF Raw("recipe_id").t = "str" /\ Raw("recipe_id").s \in PresetTokens
        THEN out.res =
               Return(PyStr(RecipeName[CHOOSE n \in DOMAIN RecipeId :
                                         RecipeId[n] = Raw("recipe_id").s]))
        ELSE out.res.exc = "none"

(* ---------------------------------------------------------------------- *)
(* Properties of the commands                                              *)
(* ---------------------------------------------------------------------- *)
SetterRange(op) ==
    CASE op = "appoint_time" -> 0 .. 1440
      [] op = "target_time" -> 1 .. 1440
      [] op = "target_temperature" -> 40 .. 200
      [] op = "food_quanty" -> 0 .. 5

\* C3: a range-checked setter issues exactly one property write when its
\* integer argument is in the inclusive range (appoint time [0,1440],
\* target time [1,1440], target temperature [40,200], food quantity [0,5])
\* and otherwise fails with the validation error and makes no transport
\* call.
C3_RangeCheckedWrites ==
    \A op \in RangeSetters :
        out.op = op =>
            IF out.arg.i \in SetterRange(op)
            THEN /\ calls = <<[kind |-> "set_property", name |-> op,
                               arg |-> out.arg]>>
                 /\ out.res.exc # "DeviceException"
            ELSE /\ calls = <<>>
                 /\ out.res = Raise("DeviceException")

C3_Witness ==
    /\ out.op = "target_time" /\ out.arg = PyInt(0)
    /\ calls = <<>>
    /\ out.res = Raise("DeviceException")

\* the preset table as the specification prints it
ExpectedCommand ==
    [M0 |-> "M0,,0,0,0,0,0", M1 |-> "M1,,15,200,0,3,0",
     M2 |-> "M2,,15,180,0,1,0", M3 |-> "M3,,30,200,0,1,0",
     M4 |-> "M4,,30,160,0,0,0", M5 |-> "M5,,15,40,0,0,0",
     M6 |-> "M6,,240,40,0,0,0", M7 |-> "M7,,480,40,0,0,0"]

\* C4: start_custom_cook of a token M0..M7 invokes the start_custom_cook
\* action once with one string, the preset's seven fields joined by commas
\* with the name empty (M1 gives "M1,,15,200,0,3,0"); any other token fails
\* before the transport and invokes no action.
C4_CustomCookEncoding ==
    out.op = "start_custom_cook" =>
        IF out.arg.t = "str" /\ out.arg.s \in PresetTokens
        THEN calls = <<[kind |-> "call_action", name |-> "start_custom_cook",
                        arg |-> PyStr(ExpectedCommand[out.arg.s])]>>
        ELSE calls = <<>> /\ out.res = Raise("ValueError")

C4_Witness ==
    /\ out.op = "start_custom_cook" /\ out.arg = PyStr("M1")
    /\ calls = <<[kind |-> "call_action", name |-> "start_custom_cook",
                  arg |-> PyStr("M1,,15,200,0,3,0")]>>

\* C9: setting an entry up constructs a client for every model string, the
\* empty and the unrecognized ones included, which then get the default
\* class FryerMiot.
C9_SetupIsTotal ==
    out.op = "async_setup_entry" =>
        /\ out.res.exc = "none"
        /\ \E host \in DOMAIN hass_data :
              /\ hass_data[host].model = out.arg.s
              /\ out.arg.s \in {"", "xiaomi.unknown"} =>
                     hass_data[host].class = "FryerMiot"

\* C7: at most one transport request of the client is in flight at any
\* time, whatever the interleaving of the callers.
C7_OneRequestInFlight ==
    Cardinality({c \in Callers : pc[c] = "awaiting"}) <= 1

====
